---- MODULE Spec2Model ----
(***************************************************************************)
(* footing: task graph, cache store, context stack.                        *)
(*                                                                         *)
(* Spec       Runner.run_task on one task, with the file system changing   *)
(*            between runs (src/footing/core.py).                          *)
(* SpecGraph  Runner.call on the graph of a root task (core.py).           *)
(* SpecRead   Runner.run_task over a cache file of any content (core.py).  *)
(* SpecFactory  Op.from_config / Op.factory building the task objects of a *)
(*            configuration, cyclic ones included (core.py).               *)
(* SpecCtx    a task's command run inside the contexts it declares:        *)
(*            ExitStack, Contextual, Kit.ctx (core.py), ctx.set (ctx.py).  *)
(* SpecCmd    a configured toolkit's command list: toolkit.cmd             *)
(*            (tools/__init__.py) and Toolkit.__post_init__ (tools/core.py)*)
(* SpecExec   the external commands of one Kit.call, Op.call (core.py) or  *)
(*            Job.run (job.py), each exiting with any status.              *)
(* SpecObj    one Obj that references a file: its cached ref, its cache    *)
(*            file and Pod.build, with the file changing (obj.py, k8s.py). *)
(* SpecGlob   Artifact.hash of a glob whose matches the file system yields *)
(*            in any order (core.py).                                      *)
(* SpecTaskHash  Task.hash and Task.ref of two tasks listing the same      *)
(*            files in different orders (core.py).                         *)
(* SpecSet    nested footing.ctx.set scopes over the Ctx objects and dicts *)
(*            they copy and update (ctx.py).                               *)
(* SpecRace   Runner.run_task step by step while another process writes    *)
(*            the task's input (core.py).                                  *)
(* SpecEnter  the expression o1 / .. / on / cmd compiled by config.enter   *)
(*            and the compiled task called (config.py).                    *)
(* SpecPod    FootingPod.exec with its builds and its retry, the pod       *)
(*            vanishing from the cluster at any time (k8s.py).             *)
(* SpecRegistry  push and find of the local registry, files being deleted  *)
(*            (registry.py).                                               *)
(***************************************************************************)
EXTENDS Integers, Sequences, FiniteSets, TLC

(***************************************************************************)
(* Bounds                                                                  *)
(***************************************************************************)
\* largest modification time a path reaches
MaxMtime == 2

\* the interpreter's recursion limit, in nested from_config calls
RecursionLimit == 6

\* the most contexts one task declares
MaxCtx == 2

\* the most command entries one toolkit declares
MaxCmd == 3

\* the most registries the packages of one kit come from
MaxRegistries == 3

\* the most ctx.set calls of one run
MaxSets == 3

(***************************************************************************)
(* The configured project                                                  *)
(***************************************************************************)
\* what a file can hold
Contents == {"a", "b"}

\* paths the configured tasks name: two files, the kit's environment directory
\* and the output of the graph's leaf
Paths == {"in", "out", "env", "d"}

\* the files a glob pattern of the project can match, named so that the
\* order of the names is the order of their numbers
GlobFiles == {"f1", "f2", "f3"}

\* a path that is not on disk
Missing == [exists |-> FALSE, content |-> "", mtime |-> 0]

\* a path that is on disk
OnDisk(c, m) == [exists |-> TRUE, content |-> c, mtime |-> m]

\* an input entry of an op's configuration: "^name" names an upstream op
Up(n) == [up |-> TRUE, name |-> n]

\* an input entry of an op's configuration that is a path
Pth(p) == [up |-> FALSE, name |-> p]

\* the ops of the configurations Op.factory is run on
OpNames == {"X", "Y", "Z"}

\* the kits a task's contexts are drawn from
Kits == {"K1", "K2"}

\* the variables of the environment a command runs with; "" is unset
EnvKeys == {"PATH", "CONDA_PREFIX", "CONDA_DEFAULT_ENV", "LANG"}

\* footing.config.find: the configuration of every kit and op
\*   T: one file input, one file output        K: a kit
\*   A -> B -> D, A -> C -> D: a diamond; C runs in the kit K
Config ==
    [ T |-> [type |-> "op",  input |-> <<Pth("in")>>, output |-> <<"out">>, kit |-> ""],
      K |-> [type |-> "kit", input |-> <<>>, output |-> <<>>, kit |-> ""],
      N |-> [type |-> "op",  input |-> <<>>, output |-> <<>>, kit |-> ""],
      D |-> [type |-> "op",  input |-> <<Pth("in")>>, output |-> <<"d">>, kit |-> ""],
      B |-> [type |-> "op",  input |-> <<Up("D")>>, output |-> <<>>, kit |-> ""],
      C |-> [type |-> "op",  input |-> <<Up("D")>>, output |-> <<>>, kit |-> "K"],
      A |-> [type |-> "op",  input |-> <<Up("B"), Up("C")>>, output |-> <<>>, kit |-> ""],
      P |-> [type |-> "op",  input |-> <<Pth("in"), Pth("out")>>, output |-> <<>>, kit |-> ""],
      Q |-> [type |-> "op",  input |-> <<Pth("out"), Pth("in")>>, output |-> <<>>, kit |-> ""] ]

Names == DOMAIN Config

(***************************************************************************)
(* Sequence helpers                                                        *)
(***************************************************************************)
Range(s) == {s[i] : i \in DOMAIN s}

RECURSIVE SetToSeq(_)
SetToSeq(S) ==
    IF S = {} THEN <<>>
    ELSE LET x == CHOOSE y \in S : TRUE IN <<x>> \o SetToSeq(S \ {x})

RECURSIVE Flatten(_)
Flatten(ss) == IF ss = <<>> THEN <<>> ELSE Head(ss) \o Flatten(Tail(ss))

Map(s, F(_)) == [i \in DOMAIN s |-> F(s[i])]

(***************************************************************************)
(* Artifacts and tasks (core.py)                                           *)
(***************************************************************************)
\* Artifact.factory for a plain string: a file artifact
Artifact_factory(p) == [type |-> "file", path |-> p]

\* the CondaEnv artifact a kit declares as its only output
CondaEnv(p) == [type |-> "conda_env", path |-> p]

\* Kit.factory: the kit's output is its environment directory
Kit_factory(n) ==
    [name |-> n, type |-> "kit", input |-> <<>>, output |-> <<CondaEnv("env")>>,
     upstream |-> <<>>, kit |-> ""]

\* Op.factory: "^name" inputs and the kit become upstream tasks, and every
\* upstream's outputs are appended to the op's inputs
RECURSIVE Op_factory(_)
Op_factory(n) ==
    IF Config[n].type = "kit" THEN Kit_factory(n)
    ELSE
    LET val      == Config[n]
        ups      == SelectSeq(val.input, LAMBDA i : i.up)
        upstream == Map(ups, LAMBDA i : i.name)
                    \o (IF val.kit # "" THEN <<val.kit>> ELSE <<>>)
        own      == Map(SelectSeq(val.input, LAMBDA i : ~i.up),
                        LAMBDA i : Artifact_factory(i.name))
        inherited == Flatten(Map(upstream, LAMBDA u : Op_factory(u).output))
    IN  [name |-> n, type |-> "op", input |-> own \o inherited,
         output |-> Map(val.output, Artifact_factory),
         upstream |-> upstream, kit |-> val.kit]

\* the task objects, by name
TaskOf == [n \in Names |-> Op_factory(n)]

\* Uri.uri
Uri(n) == <<TaskOf[n].type, n>>

\* footing.utils.hash128: a digest of its arguments, taken as collision free
hash128(args) == <<"h128">> \o args

\* Artifact.hash / CondaEnv.hash raise FileNotFoundError for a path not on disk
Artifact_hash_raises(a, f) == ~f[a.path].exists

\* Artifact.hash as it would be if it hashed the artifact's name only
Artifact_hash_name_only(a, f) == hash128(<<a.path>>)

\* Artifact.hash: a file hashes its content; CondaEnv.hash: the directory's mtime
Artifact_hash(a, f) ==
    IF a.type = "file" THEN hash128(<<f[a.path].content>>)
    ELSE hash128(<<ToString(f[a.path].mtime)>>)

\* Task.hash
Task_hash(n, f) ==
    hash128(<<n>> \o Map(TaskOf[n].input, LAMBDA a : Artifact_hash(a, f)))

\* Task.ref
Task_ref(n, f) ==
    hash128(<<Task_hash(n, f)>> \o Map(TaskOf[n].output, LAMBDA a : Artifact_hash(a, f)))

\* Task.ref raises when hashing any input or output raises
Task_ref_raises(n, f) ==
    \E a \in Range(TaskOf[n].input) \cup Range(TaskOf[n].output) :
        Artifact_hash_raises(a, f)

\* Task.edges: one edge per upstream, then the upstream's edges (a sequence,
\* with repetitions when a task is reached twice)
RECURSIVE Task_edges(_)
Task_edges(n) ==
    Flatten(Map(TaskOf[n].upstream,
                LAMBDA u : <<[upstream |-> u, downstream |-> n]>> \o Task_edges(u)))

\* the list Task.graph builds before it removes duplicates
Task_graph_list(n) ==
    Map(Task_edges(n), LAMBDA e : e.upstream)
    \o Map(Task_edges(n), LAMBDA e : e.downstream) \o <<n>>

\* Task.graph as it would be without set(): the list as built
Task_graph_no_set(n) == [edges |-> Task_edges(n), tasks |-> Task_graph_list(n)]

\* Task.graph: edges as yielded, tasks through tuple(set(...))
Task_graph(n) ==
    [edges |-> Task_edges(n), tasks |-> SetToSeq(Range(Task_graph_list(n)))]

\* root.graph, for every task
GraphOf == [n \in Names |-> Task_graph(n)]

\* the paths a task's inputs and outputs name
PathsOf(n) == {a.path : a \in Range(TaskOf[n].input) \cup Range(TaskOf[n].output)}

\* the paths named by any task of the graph of root r
GraphPaths(r) == UNION {PathsOf(n) : n \in Range(GraphOf[r].tasks)}

\* the paths of the graph of root r that none of its tasks produces
SourcePaths(r) ==
    GraphPaths(r) \ {a.path : a \in UNION {Range(TaskOf[n].output) :
                                            n \in Range(GraphOf[r].tasks)}}

(***************************************************************************)
(* State                                                                   *)
(***************************************************************************)
VARIABLES
    fs,         \* the file system: path -> Missing or OnDisk(content, mtime)
    cacheDir,   \* .footing/cache/ref exists
    cache,      \* .footing/cache/ref/<uri>: task -> cache file
    root,       \* the task the Runner was built for
    last,       \* the last run_task: task, outcome, and what it found on disk
    quiet,      \* run_task calls that returned since the last change on disk
    built,      \* the file system at the last cache write of the root task
    order,      \* Runner.call: the tasks processed so far, in order
    callState,  \* Runner.call: "idle", "running", "done", "raised"
    fcfg,       \* Op.factory: the configuration, op -> its "^name" inputs
    fstack,     \* Op.factory: the nested from_config calls, outermost first
    fresult,    \* Op.factory: "idle", "building", "built" or the exception
    gctx,       \* footing.ctx._ctx, the global context
    gctx0,      \* the global context when the task was called
    cstack,     \* _context_stack: per Contextual, the open ctx() managers,
                \* each holding the context ctx.set saved on entry
    estack,     \* the ExitStack of the call: the contexts entered, in order
    tctx,       \* the contexts the task declares
    tpc,        \* the call: "idle", "entering", "exiting", "returned", "raised"
    texc,       \* the command raised
    trace,      \* the enter and exit events of the call, in order
    oref,       \* Obj: the value functools.cached_property holds for _ref
    ostore,     \* install_path()/cache: the cache files, by key
    olast,      \* Obj: the last operation and what it compared
    decl,       \* toolkit: the command entries as declared
    tloop,      \* toolkit.cmd: its loop, [i, cmd, pk] with pk the position
                \* in cmd of the list that packages is bound to, 0 if unbound
    tcmd,       \* Toolkit: the command list of the constructed object
    tpos,       \* toolkit: "declared", "grouping", "built"
    xop,        \* the call under way: its kind and its steps, in order
    xlog,       \* the steps executed so far, with the exit status of each
    xres,       \* the call: "idle", "running", "returned", "raised"
    gmatch,     \* glob: the files the pattern matches
    gmt,        \* glob: file -> its modification time, None if it has none
    genum,      \* glob: the order in which glob.glob yields the matches
    ghash,      \* glob: the last Artifact.hash, with what it was taken of
    htask,      \* task -> the last Task.hash and Task.ref taken of it, and the disk then
    sh,         \* footing.ctx: _ctx and the Ctx objects and dicts it can refer to
    sscopes,    \* the open ctx.set scopes, outermost first: the copy each holds
    slast,      \* the last ctx.set scope left: what get() gave before and after
    scount,     \* the ctx.set calls made so far
    rpc,        \* run_task step by step: "idle", "calling", "called", "done", "hit", "raised"
    rbuilt,     \* the file system as the task's command left it
    olog,       \* Runner.call: per task processed, how its run_task ended
                \* and whether it changed the hash of a declared output
    prevRun,    \* Runner.call: what the run follows: "none", a run that
                \* completed ("done"), or one that completed with the disk
                \* untouched since ("same")
    texpr,      \* config.enter: the objects o1 .. on of o1 / .. / on / cmd
    ppc,        \* FootingPod.exec: "idle", "build", "try", "rebuild", "returned", "raised"
    pretry,     \* FootingPod.exec: the retry argument of the call under way
    pexe,       \* FootingPod.exec: an executable was given
    plog,       \* FootingPod.exec: the builds and execution attempts of the call
    premote,    \* the pod exists in the cluster
    rindex,     \* Registry.index["packages"]: the entries, one per package name
    rfiles,     \* the paths that exist, in the registry's folder and outside it
    rfound,     \* the last find: its arguments and result, and whether the result
                \* was an entry of the index then and its path existed
    rlatest,    \* per kind, name and ref, the path of the last push of it, "" if none
    rlastref    \* per kind and name, the ref of the last push of it, "" if none

runnerVars == <<cacheDir, cache, root, last, quiet, built, order, callState>>

factoryVars == <<fcfg, fstack, fresult>>

ctxVars == <<gctx, gctx0, cstack, estack, tctx, tpc, texc, trace>>

objVars == <<oref, ostore, olast>>

cmdVars == <<decl, tloop, tcmd, tpos>>

execVars == <<xop, xlog, xres>>

hashVars == <<gmatch, gmt, genum, ghash, htask>>

setVars == <<sh, sscopes, slast, scount>>

raceVars == <<rpc, rbuilt>>

graphVars == <<olog, prevRun>>

enterVars == <<texpr>>

podVars == <<ppc, pretry, pexe, plog, premote>>

regVars == <<rindex, rfiles, rfound, rlatest, rlastref>>

vars == <<fs, runnerVars, factoryVars, ctxVars, objVars, cmdVars, execVars,
        hashVars, setVars, raceVars, graphVars, enterVars, podVars, regVars>>

\* what the runner's steps leave alone
RunnerFrame == UNCHANGED <<factoryVars, ctxVars, objVars, cmdVars, execVars,
        hashVars, setVars, raceVars, graphVars, enterVars, podVars, regVars>>

\* what the factory's steps leave alone
FactoryFrame == UNCHANGED <<fs, runnerVars, ctxVars, objVars, cmdVars,
        execVars, hashVars, setVars, raceVars, graphVars, enterVars, podVars,
        regVars>>

\* what the steps of a task's call leave alone
CtxFrame == UNCHANGED <<fs, runnerVars, factoryVars, objVars, cmdVars,
        execVars, hashVars, setVars, raceVars, graphVars, enterVars, podVars,
        regVars>>

\* what the operations of an Obj leave alone
ObjFrame == UNCHANGED <<fs, runnerVars, factoryVars, ctxVars, cmdVars,
        execVars, hashVars, setVars, raceVars, graphVars, enterVars, podVars,
        regVars>>

\* what the construction of a toolkit leaves alone
CmdFrame == UNCHANGED <<fs, runnerVars, factoryVars, ctxVars, objVars,
        execVars, hashVars, setVars, raceVars, graphVars, enterVars, podVars,
        regVars>>

\* what the steps of a Kit.call, Op.call or Job.run leave alone
ExecFrame == UNCHANGED <<fs, runnerVars, factoryVars, ctxVars, objVars,
        cmdVars, hashVars, setVars, raceVars, graphVars, enterVars, podVars,
        regVars>>

\* what a change on disk leaves alone
DiskFrame == UNCHANGED <<factoryVars, ctxVars, objVars, cmdVars, execVars,
        hashVars, setVars, raceVars, graphVars, enterVars, podVars, regVars>>

\* what hashing a glob or a task leaves alone
HashFrame == UNCHANGED <<fs, runnerVars, factoryVars, ctxVars, objVars,
        cmdVars, execVars, setVars, raceVars, graphVars, enterVars, podVars,
        regVars>>

\* what entering and leaving a ctx.set scope leaves alone
SetFrame == UNCHANGED <<fs, runnerVars, factoryVars, ctxVars, objVars,
        cmdVars, execVars, hashVars, raceVars, graphVars, enterVars, podVars,
        regVars>>

\* what the steps of one run_task leave alone
RaceFrame == UNCHANGED <<factoryVars, ctxVars, objVars, cmdVars, execVars,
        hashVars, setVars, graphVars, enterVars, podVars, regVars>>

\* what the steps of Runner.call leave alone
GraphFrame == UNCHANGED <<factoryVars, ctxVars, objVars, cmdVars, execVars,
        hashVars, setVars, raceVars, enterVars, podVars, regVars>>

\* what the steps of FootingPod.exec leave alone
PodFrame == UNCHANGED <<fs, runnerVars, factoryVars, ctxVars, cmdVars,
        execVars, hashVars, setVars, raceVars, graphVars, enterVars, regVars>>

\* what the operations of a registry leave alone
RegFrame == UNCHANGED <<fs, runnerVars, factoryVars, ctxVars, objVars,
        cmdVars, execVars, hashVars, setVars, raceVars, graphVars, enterVars,
        podVars>>

\* a cache file that does not exist: cached_ref returns None
Absent == [kind |-> "absent", val |-> <<>>]

\* a cache file that was opened for writing and never written: ""
Empty == [kind |-> "empty", val |-> <<>>]

\* a cache file holding a ref
Record(r) == [kind |-> "ref", val |-> r]

\* a cache file whose bytes are not text in the default encoding
Undecodable == [kind |-> "undecodable", val |-> <<>>]

NoRun == [op |-> "none", task |-> "", result |-> "", missing |-> FALSE, change |-> "none"]

Exceptions == {"FileNotFoundError", "CalledProcessError", "UnicodeDecodeError"}

(***************************************************************************)
(* Runner (core.py)                                                        *)
(***************************************************************************)
\* Runner.cached_ref: the content of the task's cache file, None if absent
Runner_cached_ref(n, dir, c) == IF dir THEN c[n] ELSE Absent

\* Runner.cached_ref raises: open(path) is in text mode and f.read() decodes
Runner_cached_ref_raises(n, dir, c) == dir /\ c[n].kind = "undecodable"

\* the comparison of run_task: cached_ref(task) == task.ref()
IsHit(rec, ref) == rec.kind = "ref" /\ rec.val = ref

\* Runner.cache_ref: open(..., "w") then write task.ref(); a FileNotFoundError
\* of either creates the directory and returns without writing
Runner_cache_ref(n, f, dir, c) ==
    IF ~dir THEN [cacheDir |-> TRUE, cache |-> c]
    ELSE IF Task_ref_raises(n, f) THEN [cacheDir |-> dir, cache |-> [c EXCEPT ![n] = Empty]]
    ELSE [cacheDir |-> dir, cache |-> [c EXCEPT ![n] = Record(Task_ref(n, f))]]

\* what footing.utils.run of an op's command can do: fail, succeed writing
\* every declared output, or succeed writing nothing
OpOutcomes(n, f) ==
    {[kind |-> "fail", content |-> ""], [kind |-> "nowrite", content |-> ""]}
    \cup {[kind |-> "ok", content |-> c] : c \in
            IF \A a \in Range(TaskOf[n].output) : f[a.path].mtime < MaxMtime
            THEN Contents ELSE {}}

\* what the conda commands of Kit.call can do
KitOutcomes(n, f) ==
    (IF f["env"].exists THEN {} ELSE {[kind |-> "create_fail", content |-> ""]})
    \cup (IF f["env"].mtime < MaxMtime
          THEN {[kind |-> "install_fail", content |-> ""], [kind |-> "ok", content |-> ""]}
          ELSE {})

Outcomes(n, f) == IF TaskOf[n].type = "kit" THEN KitOutcomes(n, f) ELSE OpOutcomes(n, f)

\* Op.call: enter the kit, run the command, leave the kit
Op_call(n, f, o) ==
    IF o.kind = "fail" THEN [exc |-> "CalledProcessError", fs |-> f]
    ELSE IF o.kind = "nowrite" THEN [exc |-> "", fs |-> f]
    ELSE [exc |-> "",
          fs |-> [p \in Paths |->
                    IF \E a \in Range(TaskOf[n].output) : a.path = p
                    THEN OnDisk(o.content, f[p].mtime + 1) ELSE f[p]]]

\* Kit.call: create the environment if its path is missing, install the
\* packages inside the kit's context, touch the path
Kit_call(n, f, o) ==
    LET p == TaskOf[n].output[1].path
        created == [f EXCEPT ![p] = OnDisk("", f[p].mtime + 1)]
    IN  IF ~f[p].exists /\ o.kind = "create_fail"
        THEN [exc |-> "CalledProcessError", fs |-> f]
        ELSE IF o.kind = "install_fail"
        THEN [exc |-> "CalledProcessError", fs |-> IF f[p].exists THEN f ELSE created]
        ELSE [exc |-> "", fs |-> created]

\* Callable.__call__
Task_call(n, f, o) == IF TaskOf[n].type = "kit" THEN Kit_call(n, f, o) ELSE Op_call(n, f, o)

\* Runner.run_task as it would be with cache_ref in a finally clause
Runner_run_task_finally(n, o, f, dir, c) ==
    IF Runner_cached_ref_raises(n, dir, c)
    THEN [result |-> "UnicodeDecodeError", fs |-> f, cacheDir |-> dir, cache |-> c]
    ELSE IF Task_ref_raises(n, f)
    THEN [result |-> "FileNotFoundError", fs |-> f, cacheDir |-> dir, cache |-> c]
    ELSE IF IsHit(Runner_cached_ref(n, dir, c), Task_ref(n, f))
    THEN [result |-> "hit", fs |-> f, cacheDir |-> dir, cache |-> c]
    ELSE LET r == Task_call(n, f, o)
             w == Runner_cache_ref(n, r.fs, dir, c)
         IN  [result |-> IF r.exc # "" THEN r.exc ELSE "ran", fs |-> r.fs,
              cacheDir |-> w.cacheDir, cache |-> w.cache]

\* Runner.run_task without the early return: a hit is noted and the task
\* is called all the same
Runner_run_task_no_return(n, o, f, dir, c) ==
    IF Runner_cached_ref_raises(n, dir, c)
    THEN [result |-> "UnicodeDecodeError", fs |-> f, cacheDir |-> dir, cache |-> c]
    ELSE IF Task_ref_raises(n, f)
    THEN [result |-> "FileNotFoundError", fs |-> f, cacheDir |-> dir, cache |-> c]
    ELSE LET hit == IsHit(Runner_cached_ref(n, dir, c), Task_ref(n, f))
             r == Task_call(n, f, o)
         IN  IF r.exc # ""
             THEN [result |-> r.exc, fs |-> r.fs, cacheDir |-> dir, cache |-> c]
             ELSE LET w == Runner_cache_ref(n, r.fs, dir, c) IN
                  [result |-> IF hit THEN "hit" ELSE "ran", fs |-> r.fs,
                   cacheDir |-> w.cacheDir, cache |-> w.cache]

\* Runner.run_task: return on a hit, else call the task and write its ref
Runner_run_task(n, o, f, dir, c) ==
    IF Runner_cached_ref_raises(n, dir, c)
    THEN [result |-> "UnicodeDecodeError", fs |-> f, cacheDir |-> dir, cache |-> c]
    ELSE IF Task_ref_raises(n, f)
    THEN [result |-> "FileNotFoundError", fs |-> f, cacheDir |-> dir, cache |-> c]
    ELSE IF IsHit(Runner_cached_ref(n, dir, c), Task_ref(n, f))
    THEN [result |-> "hit", fs |-> f, cacheDir |-> dir, cache |-> c]
    ELSE LET r == Task_call(n, f, o) IN
         IF r.exc # ""
         THEN [result |-> r.exc, fs |-> r.fs, cacheDir |-> dir, cache |-> c]
         ELSE LET w == Runner_cache_ref(n, r.fs, dir, c) IN
              [result |-> "ran", fs |-> r.fs, cacheDir |-> w.cacheDir, cache |-> w.cache]

\* an output path of the task is not on disk
OutputMissing(n, f) == \E a \in Range(TaskOf[n].output) : ~f[a.path].exists

\* how the root's file inputs differ from what they were at its last cache
\* write, everything else it names being as it was: "content", "mtime"
\* (same content, other mtime) or "none"
InputChange(n, f, c, b) ==
    LET ins == {a.path : a \in {x \in Range(TaskOf[n].input) : x.type = "file"}}
        others == PathsOf(n) \ ins
    IN  IF \/ n # root
           \/ c[n].kind # "ref"
           \/ \E p \in ins : ~f[p].exists
           \/ \E p \in others : f[p] # b[p]
        THEN "none"
        ELSE IF \E p \in ins : f[p].content # b[p].content THEN "content"
        ELSE IF \E p \in ins : f[p].mtime # b[p].mtime THEN "mtime"
        ELSE "none"

\* one run_task call and its bookkeeping
DoRunTask(n, o) ==
    LET r == Runner_run_task(n, o, fs, cacheDir, cache) IN
    /\ fs' = r.fs
    /\ cacheDir' = r.cacheDir
    /\ cache' = r.cache
    /\ last' = [op |-> "run_task", task |-> n, result |-> r.result,
                missing |-> OutputMissing(n, fs),
                change |-> InputChange(n, fs, cache, built)]
    /\ quiet' = IF r.result \in Exceptions THEN 0
                ELSE IF quiet < 2 THEN quiet + 1 ELSE 2
    /\ built' = IF n = root /\ r.result = "ran" /\ cacheDir /\ r.cache[n].kind = "ref"
                THEN r.fs ELSE built

\* runner.run_task(root), called directly
RunTask ==
    /\ callState = "idle"
    /\ \E o \in Outcomes(root, fs) : DoRunTask(root, o)
    /\ UNCHANGED <<root, order, callState>>
    /\ RunnerFrame

(***************************************************************************)
(* The world outside: files change between runs                            *)
(***************************************************************************)
\* touch an existing path: new mtime, same content
Touch(p) ==
    /\ callState # "running"
    /\ fs[p].exists /\ fs[p].mtime < MaxMtime
    /\ fs' = [fs EXCEPT ![p].mtime = @ + 1]
    /\ quiet' = 0
    /\ UNCHANGED <<cacheDir, cache, root, last, built, order, callState>>
    /\ DiskFrame

\* write other content to a file (creates it when missing)
Write(p, c) ==
    /\ callState # "running"
    /\ p # "env"
    /\ fs[p].mtime < MaxMtime
    /\ ~fs[p].exists \/ fs[p].content # c
    /\ fs' = [fs EXCEPT ![p] = OnDisk(c, fs[p].mtime + 1)]
    /\ quiet' = 0
    /\ UNCHANGED <<cacheDir, cache, root, last, built, order, callState>>
    /\ DiskFrame

\* remove a path
Delete(p) ==
    /\ callState # "running"
    /\ fs[p].exists
    /\ fs' = [fs EXCEPT ![p] = Missing]
    /\ quiet' = 0
    /\ UNCHANGED <<cacheDir, cache, root, last, built, order, callState>>
    /\ DiskFrame

AllMissing == [p \in Paths |-> Missing]

\* the factory before any from_config call
FactoryIdle ==
    /\ fcfg = [n \in OpNames |-> {}]
    /\ fstack = <<>>
    /\ fresult = "idle"

\* the runner before any run, on an empty project
RunnerIdle ==
    /\ root = "T"
    /\ fs = AllMissing
    /\ cacheDir = FALSE
    /\ cache = [n \in Names |-> Absent]
    /\ last = NoRun
    /\ quiet = 0
    /\ built = AllMissing
    /\ order = <<>>
    /\ callState = "idle"

\* ctx.Ctx(): the global context get() creates
Ctx(cache_, debug_, env_) == [cache |-> cache_, debug |-> debug_, env |-> env_]

\* toolkit.cmd before its loop
LoopStart == [i |-> 1, cmd |-> <<>>, pk |-> 0]

\* os.path.getmtime raised FileNotFoundError: _mtime returns None
None == -1

\* no hash taken yet
NoHash == [set |-> FALSE, val |-> <<>>, enum |-> <<>>, mt |-> [f \in GlobFiles |-> None]]

\* a pattern that matches nothing, and no hash taken
HashIdle ==
    /\ gmatch = {}
    /\ gmt = [f \in GlobFiles |-> None]
    /\ genum = <<>>
    /\ ghash = NoHash
    /\ htask = [n \in {"P", "Q"} |-> [set |-> FALSE, hash |-> <<>>, ref |-> <<>>,
                                        at |-> AllMissing]]

\* a dict without a key for any name
EmptyDict == [k \in {"A", "B"} |-> "-"]

\* the fields of a Ctx with the dict of its env in place of the reference
CtxValue(c, d, a, e) == [cache |-> c, debug |-> d, entry_add |-> a, env |-> e]

\* no ctx.set scope was left yet
NoExit == [op |-> "none", exc |-> FALSE, depth |-> 0,
           before |-> CtxValue(TRUE, FALSE, "", EmptyDict),
           inside |-> CtxValue(TRUE, FALSE, "", EmptyDict),
           after |-> CtxValue(TRUE, FALSE, "", EmptyDict)]

\* _ctx is None and ctx.set was never called
SetIdle ==
    /\ sh = [ctx |-> 0, objs |-> <<>>, dicts |-> <<>>]
    /\ sscopes = <<>>
    /\ slast = NoExit
    /\ scount = 0

\* no run_task under way
RaceIdle ==
    /\ rpc = "idle"
    /\ rbuilt = AllMissing

\* no graph run yet
GraphIdle ==
    /\ olog = <<>>
    /\ prevRun = "none"

\* no '/' expression
EnterIdle == texpr = <<>>

\* no exec called, no pod in the cluster
PodIdle ==
    /\ ppc = "idle"
    /\ pretry = TRUE
    /\ pexe = TRUE
    /\ plog = <<>>
    /\ premote = FALSE

\* the kinds of build pushed to the local registry
RegKinds == {"toolkit", "toolkit-lock"}

\* LocalRegistry.unversioned
unversioned == {"toolkit"}

RegNames == {"n"}

Refs == {"r1", "r2"}

\* what find returns for None
NoPackage == [found |-> FALSE, key |-> "", kind |-> "", name |-> "", ref |-> "", path |-> ""]

\* no find called yet
NoFind == [op |-> "none", kind |-> "", name |-> "", ref |-> "", result |-> NoPackage,
           indexed |-> FALSE, exists |-> FALSE]

\* a registry without index.yml: load() leaves an empty index
RegIdle ==
    /\ rindex = {}
    /\ rfiles = {}
    /\ rfound = NoFind
    /\ rlatest = [t \in (RegKinds \ unversioned) \X RegNames \X Refs |-> ""]
    /\ rlastref = [t \in unversioned \X RegNames |-> ""]

\* nothing of the later sections has started
LaterIdle ==
    /\ HashIdle
    /\ SetIdle
    /\ RaceIdle
    /\ GraphIdle
    /\ EnterIdle
    /\ PodIdle
    /\ RegIdle

\* no call under way
ExecIdle ==
    /\ xop = [kind |-> "none", steps |-> <<>>]
    /\ xlog = <<>>
    /\ xres = "idle"

\* a toolkit that declares no command, not constructed
CmdIdle ==
    /\ ExecIdle
    /\ LaterIdle
    /\ decl = <<>>
    /\ tloop = LoopStart
    /\ tcmd = <<>>
    /\ tpos = "declared"

\* cached_property before the first access of _ref
NotComputed == [set |-> FALSE, hash |-> ""]

\* used: the hash the operation worked with; fresh: the hash of the disk
\* then; had: a cache file named by the used hash existed before it
NoQuery == [op |-> "none", result |-> "", used |-> "", fresh |-> "", had |-> FALSE]

\* an Obj no property of which was read, and an empty cache folder
ObjIdle ==
    /\ oref = NotComputed
    /\ ostore = {}
    /\ olast = NoQuery
    /\ CmdIdle

\* no call in progress, the default global context
CtxIdle ==
    /\ gctx = Ctx(TRUE, FALSE, [k \in EnvKeys |-> ""])
    /\ gctx0 = gctx
    /\ cstack = [k \in Kits |-> <<>>]
    /\ estack = <<>>
    /\ tctx = <<>>
    /\ tpc = "idle"
    /\ texc = FALSE
    /\ trace = <<>>

\* the states a project can be in before the first run: any of the root's
\* paths on disk or not, the cache directory there or not, no cache file yet
InitFor(roots) ==
    /\ FactoryIdle
    /\ CtxIdle
    /\ ObjIdle
    /\ root \in roots
    /\ fs \in {f \in [Paths -> {Missing, OnDisk("a", 0), OnDisk("", 0)}] :
                 \A p \in Paths :
                    /\ p \notin GraphPaths(root) => f[p] = Missing
                    /\ f[p].exists => (f[p].content = "" <=> p = "env")}
    /\ cacheDir \in BOOLEAN
    /\ cache = [n \in Names |-> Absent]
    /\ last = NoRun
    /\ quiet = 0
    /\ built = AllMissing
    /\ order = <<>>
    /\ callState = "idle"

Init == InitFor({"T", "K", "N"})

Next ==
    \/ RunTask
    \/ \E p \in GraphPaths(root) : Touch(p)
    \/ \E p \in GraphPaths(root), c \in Contents : Write(p, c)
    \/ \E p \in GraphPaths(root) : Delete(p)

Spec == Init /\ [][Next]_vars

(***************************************************************************)
(* Runner.run_task over a cache file of any content                        *)
(***************************************************************************)
\* something outside footing leaves other bytes in the task's cache file
CorruptCache(rec) ==
    /\ callState = "idle"
    /\ cacheDir
    /\ cache[root] # rec
    /\ cache' = [cache EXCEPT ![root] = rec]
    /\ quiet' = 0
    /\ UNCHANGED <<fs, cacheDir, root, last, built, order, callState>>
    /\ RunnerFrame

InitRead == InitFor({"T"})

NextRead ==
    \/ RunTask
    \/ \E rec \in {Empty, Undecodable} : CorruptCache(rec)
    \/ \E c \in Contents : Write("in", c)

SpecRead == InitRead /\ [][NextRead]_vars

(***************************************************************************)
(* Runner.call: the graph run (core.py)                                    *)
(***************************************************************************)
\* the nodes of the networkx graph: one per uri of set(graph.tasks)
Runner_nodes(r) == Range(GraphOf[r].tasks)

\* the edges of the networkx graph: set(graph.edges)
Runner_edges(r) == Range(GraphOf[r].edges)

\* a sort that yields the nodes in any order
Ready_any_order(n, done, edges) == TRUE

\* nx.topological_sort yields a node once every node with an edge into it
\* has been yielded
Ready(n, done, edges) ==
    \A e \in edges : e.downstream = n => e.upstream \in done

\* Runner.call, up to the loop: build the networkx graph
Runner_call_begin ==
    /\ callState # "running"
    /\ callState' = "running"
    /\ order' = <<>>
    /\ olog' = <<>>
    /\ prevRun' = IF callState # "done" THEN "none"
                  ELSE IF quiet > 0 THEN "same" ELSE "done"
    /\ UNCHANGED <<fs, cacheDir, cache, root, last, quiet, built>>
    /\ GraphFrame

\* Runner.call with a loop that catches what run_task raises and goes on
\* to the next node
Runner_call_step_catch ==
    /\ callState = "running"
    /\ \E n \in Runner_nodes(root) \ Range(order) :
        /\ Ready(n, Range(order), Runner_edges(root))
        /\ \E o \in Outcomes(n, fs) : DoRunTask(n, o)
        /\ order' = Append(order, n)
        /\ olog' = Append(olog, [result |-> last'.result,
                                 changed |-> \E a \in Range(TaskOf[n].output) :
                                    \/ fs'[a.path].exists # fs[a.path].exists
                                    \/ Artifact_hash(a, fs') # Artifact_hash(a, fs)])
        /\ callState' = IF Runner_nodes(root) \subseteq Range(order')
                        THEN "done" ELSE "running"
    /\ UNCHANGED <<root, prevRun>>
    /\ GraphFrame

\* Runner.call, one iteration of the loop: run_task on the next node; an
\* exception leaves the loop, the last node ends it
Runner_call_step ==
    /\ callState = "running"
    /\ \E n \in Runner_nodes(root) \ Range(order) :
        /\ Ready(n, Range(order), Runner_edges(root))
        /\ \E o \in Outcomes(n, fs) : DoRunTask(n, o)
        /\ order' = Append(order, n)
        /\ olog' = Append(olog, [result |-> last'.result,
                                 changed |-> \E a \in Range(TaskOf[n].output) :
                                    \/ fs'[a.path].exists # fs[a.path].exists
                                    \/ Artifact_hash(a, fs') # Artifact_hash(a, fs)])
        /\ callState' = IF last'.result \in Exceptions THEN "raised"
                        ELSE IF Runner_nodes(root) \subseteq Range(order')
                        THEN "done" ELSE "running"
    /\ UNCHANGED <<root, prevRun>>
    /\ GraphFrame

InitGraph == InitFor({"A"})

\* between graph runs the files no task of the graph produces are rewritten
NextGraph ==
    \/ Runner_call_begin
    \/ Runner_call_step
    \/ \E p \in SourcePaths(root), c \in Contents : Write(p, c)

SpecGraph == InitGraph /\ [][NextGraph]_vars

(***************************************************************************)
(* Op.from_config / Op.factory: building the task objects (core.py)        *)
(***************************************************************************)
\* the "^name" inputs of an op, in the order the configuration lists them
Upstream_names(cfg, n) == SetToSeq(cfg[n])

\* Obj.from_config(name) called from outside: find the configuration and
\* call factory on it
Op_from_config ==
    /\ fresult = "idle"
    /\ fstack' = <<[name |-> "X", i |-> 1]>>
    /\ fresult' = "building"
    /\ UNCHANGED fcfg
    /\ FactoryFrame

\* Op.factory, the list comprehension over the "^name" inputs: from_config
\* of the next one; nothing remembers the ops under construction, and the
\* interpreter raises RecursionError at its recursion limit
Op_factory_descend ==
    /\ fresult = "building"
    /\ LET top == fstack[Len(fstack)]
           ups == Upstream_names(fcfg, top.name)
       IN  /\ top.i <= Len(ups)
           /\ IF Len(fstack) >= RecursionLimit
              THEN fstack' = <<>> /\ fresult' = "RecursionError"
              ELSE /\ fstack' = Append(fstack, [name |-> ups[top.i], i |-> 1])
                   /\ fresult' = "building"
    /\ UNCHANGED fcfg
    /\ FactoryFrame

\* Op.factory, after the last upstream: construct the op and return it
Op_factory_return ==
    /\ fresult = "building"
    /\ LET top == fstack[Len(fstack)]
           ups == Upstream_names(fcfg, top.name)
           rest == SubSeq(fstack, 1, Len(fstack) - 1)
       IN  /\ top.i > Len(ups)
           /\ IF rest = <<>>
              THEN fstack' = <<>> /\ fresult' = "built"
              ELSE /\ fstack' = [rest EXCEPT ![Len(rest)].i = @ + 1]
                   /\ fresult' = "building"
    /\ UNCHANGED fcfg
    /\ FactoryFrame

\* any configuration of the three ops, cyclic ones included
InitFactory ==
    /\ fcfg \in [OpNames -> SUBSET OpNames]
    /\ fstack = <<>>
    /\ fresult = "idle"
    /\ RunnerIdle
    /\ CtxIdle
    /\ ObjIdle

NextFactory ==
    \/ Op_from_config
    \/ Op_factory_descend
    \/ Op_factory_return

SpecFactory == InitFactory /\ [][NextFactory]_vars

(***************************************************************************)
(* Contexts: a task's command inside the contexts it declares              *)
(* (core.py Contextual, Kit.ctx, Op.call; ctx.py)                          *)
(***************************************************************************)
\* Ctx.update(env=e): a dict value is merged over the current one
Ctx_update(g, e) ==
    [g EXCEPT !.env = [k \in EnvKeys |-> IF e[k] # "" THEN e[k] ELSE @[k]]]

\* Kit.ctx: the environment a kit sets, its PATH built from os.environ's
Kit_ctx_env(k) ==
    [key \in EnvKeys |->
        CASE key = "PATH" -> k \o "/bin:$PATH"
          [] key = "CONDA_PREFIX" -> "/envs/" \o k
          [] key = "CONDA_DEFAULT_ENV" -> k
          [] OTHER -> ""]

\* ctx.set up to its yield: copy the global context, then update it
ctx_set_enter(g, e) == [prev |-> g, gctx |-> Ctx_update(g, e)]

\* ctx.set, its finally clause: the copy becomes the global context
ctx_set_exit(prev) == prev

\* Contextual.__enter__: open self.ctx(), push it on the instance's list
Contextual_enter(k, g, cs) ==
    LET m == ctx_set_enter(g, Kit_ctx_env(k))
    IN  [gctx |-> m.gctx, cstack |-> [cs EXCEPT ![k] = Append(@, m.prev)]]

\* Contextual.__exit__ popping the oldest manager of the instance
Contextual_exit_oldest(k, g, cs) ==
    [gctx |-> ctx_set_exit(Head(cs[k])), cstack |-> [cs EXCEPT ![k] = Tail(@)]]

\* Contextual.__exit__: pop the instance's last manager and exit it
Contextual_exit(k, g, cs) ==
    [gctx |-> ctx_set_exit(cs[k][Len(cs[k])]),
     cstack |-> [cs EXCEPT ![k] = SubSeq(@, 1, Len(@) - 1)]]

\* ExitStack unwinding in the order of entry
ExitStack_next_fifo(es) == [ctx |-> Head(es), rest |-> Tail(es)]

\* ExitStack.__exit__: the callbacks run last in, first out
ExitStack_next(es) ==
    [ctx |-> es[Len(es)], rest |-> SubSeq(es, 1, Len(es) - 1)]

\* the contexts a task declares, in order
Task_ctx == tctx

\* Task.call: open the ExitStack
Task_call_begin ==
    /\ tpc = "idle"
    /\ tpc' = "entering"
    /\ UNCHANGED <<gctx, gctx0, cstack, estack, tctx, texc, trace>>
    /\ CtxFrame

\* Task.call: stack.enter_context of the next declared context
Task_enter_context ==
    /\ tpc = "entering"
    /\ Len(estack) < Len(Task_ctx)
    /\ LET k == Task_ctx[Len(estack) + 1]
           r == Contextual_enter(k, gctx, cstack)
       IN  /\ gctx' = r.gctx
           /\ cstack' = r.cstack
           /\ estack' = Append(estack, k)
           /\ trace' = Append(trace, [ev |-> "enter", ctx |-> k])
    /\ UNCHANGED <<gctx0, tctx, tpc, texc>>
    /\ CtxFrame

\* Task.call: footing.utils.run of the command, which returns or raises
Task_run_command ==
    /\ tpc = "entering"
    /\ Len(estack) = Len(Task_ctx)
    /\ \E ok \in BOOLEAN : texc' = ~ok
    /\ tpc' = "exiting"
    /\ UNCHANGED <<gctx, gctx0, cstack, estack, tctx, trace>>
    /\ CtxFrame

\* Task.call leaving the with block: the ExitStack exits one context
Task_exit_context ==
    /\ tpc = "exiting"
    /\ estack # <<>>
    /\ LET n == ExitStack_next(estack)
           r == Contextual_exit(n.ctx, gctx, cstack)
       IN  /\ gctx' = r.gctx
           /\ cstack' = r.cstack
           /\ estack' = n.rest
           /\ trace' = Append(trace, [ev |-> "exit", ctx |-> n.ctx])
    /\ UNCHANGED <<gctx0, tctx, tpc, texc>>
    /\ CtxFrame

\* Task.call: the with block is left; return, or the command's exception
Task_call_end ==
    /\ tpc = "exiting"
    /\ estack = <<>>
    /\ tpc' = IF texc THEN "raised" ELSE "returned"
    /\ UNCHANGED <<gctx, gctx0, cstack, estack, tctx, texc, trace>>
    /\ CtxFrame

\* the lists of at most n kits
RECURSIVE CtxLists(_)
CtxLists(n) ==
    IF n = 0 THEN {<<>>}
    ELSE CtxLists(n - 1) \cup
         {Append(l, k) : l \in {x \in CtxLists(n - 1) : Len(x) = n - 1}, k \in Kits}

\* any task, called under any global context
InitCtx ==
    /\ FactoryIdle
    /\ RunnerIdle
    /\ ObjIdle
    /\ gctx \in {Ctx(c, d, [k \in EnvKeys |-> IF k = "LANG" THEN l ELSE ""]) :
                    c \in BOOLEAN, d \in BOOLEAN, l \in {"", "C"}}
    /\ gctx0 = gctx
    /\ cstack = [k \in Kits |-> <<>>]
    /\ estack = <<>>
    /\ tctx \in CtxLists(MaxCtx)
    /\ tpc = "idle"
    /\ texc = FALSE
    /\ trace = <<>>

NextCtx ==
    \/ Task_call_begin
    \/ Task_enter_context
    \/ Task_run_command
    \/ Task_exit_context
    \/ Task_call_end

SpecCtx == InitCtx /\ [][NextCtx]_vars

(***************************************************************************)
(* A configured toolkit's command list (tools/__init__.py, tools/core.py)  *)
(***************************************************************************)
\* the entries a toolkit can declare: package names, which are strings, and
\* tasks
Entries ==
    {[str |-> TRUE, name |-> "p1"], [str |-> TRUE, name |-> "p2"],
     [str |-> FALSE, name |-> "t1"], [str |-> FALSE, name |-> "t2"]}

\* an element of a command list: a list of package names (later an
\* Install), or a task
Group(pkgs) == [kind |-> "install", name |-> "", pkgs |-> pkgs]

TaskEntry(n) == [kind |-> "task", name |-> n, pkgs |-> <<>>]

\* toolkit.cmd, the loop body: the first string binds packages to a new
\* list appended to cmd, every later string is appended to that list, and
\* any other entry is appended to cmd
toolkit_cmd_body(l, val) ==
    IF val.str
    THEN IF l.pk = 0
         THEN [i |-> l.i + 1, cmd |-> Append(l.cmd, Group(<<val.name>>)),
               pk |-> Len(l.cmd) + 1]
         ELSE [i |-> l.i + 1,
               cmd |-> [l.cmd EXCEPT ![l.pk].pkgs = Append(@, val.name)],
               pk |-> l.pk]
    ELSE [i |-> l.i + 1, cmd |-> Append(l.cmd, TaskEntry(val.name)), pk |-> l.pk]

\* Toolkit.__post_init__: the task that creates the conda environment is
\* put in front of the commands
Toolkit_post_init(cmd) == <<TaskEntry("create")>> \o cmd

\* toolkit.__call__: evaluate obj_kwargs, which reads the cmd property
toolkit_call ==
    /\ tpos = "declared"
    /\ tpos' = "grouping"
    /\ tloop' = LoopStart
    /\ UNCHANGED <<decl, tcmd>>
    /\ CmdFrame

\* toolkit.cmd: one iteration of the loop over the declared entries
toolkit_cmd_step ==
    /\ tpos = "grouping"
    /\ tloop.i <= Len(decl)
    /\ tloop' = toolkit_cmd_body(tloop, decl[tloop.i])
    /\ UNCHANGED <<decl, tcmd, tpos>>
    /\ CmdFrame

\* toolkit.cmd returns, the lists as Install objects, and Toolkit(**kwargs)
\* is constructed
Toolkit_init ==
    /\ tpos = "grouping"
    /\ tloop.i > Len(decl)
    /\ tcmd' = Toolkit_post_init(tloop.cmd)
    /\ tpos' = "built"
    /\ UNCHANGED <<decl, tloop>>
    /\ CmdFrame

\* the lists of at most n entries
RECURSIVE EntryLists(_)
EntryLists(n) ==
    IF n = 0 THEN {<<>>}
    ELSE EntryLists(n - 1) \cup
         {Append(l, e) : l \in {x \in EntryLists(n - 1) : Len(x) = n - 1}, e \in Entries}

\* a toolkit declaring any entries
InitCmd ==
    /\ FactoryIdle
    /\ RunnerIdle
    /\ CtxIdle
    /\ oref = NotComputed
    /\ ostore = {}
    /\ olast = NoQuery
    /\ ExecIdle
    /\ LaterIdle
    /\ decl \in EntryLists(MaxCmd)
    /\ tloop = LoopStart
    /\ tcmd = <<>>
    /\ tpos = "declared"

NextCmd ==
    \/ toolkit_call
    \/ toolkit_cmd_step
    \/ Toolkit_init

SpecCmd == InitCmd /\ [][NextCmd]_vars

(***************************************************************************)
(* External commands: Kit.call, Op.call (core.py), Job.run (job.py)        *)
(***************************************************************************)
\* the exit statuses of an external command
ExitCodes == {0, 1, 2, 127}

\* a step that runs an external command, and one that does not
External(name) == [name |-> name, external |-> TRUE]

Internal(name) == [name |-> name, external |-> FALSE]

\* Kit.call: conda create if the environment's path is missing, one
\* registry.install per registry of the packages inside the kit's context,
\* then the touch of the path
Kit_call_steps(envExists, nreg) ==
    (IF envExists THEN <<>> ELSE <<External("conda create")>>)
    \o <<Internal("enter kit")>>
    \o [i \in 1..nreg |-> External("registry.install")]
    \o <<Internal("exit kit"), Internal("touch")>>

\* Op.call: the command, inside the kit if the op has one
Op_call_steps(hasKit) ==
    IF hasKit
    THEN <<Internal("enter kit"), External("run"), Internal("exit kit")>>
    ELSE <<External("run")>>

\* Job.run: the command under conda run
Job_run_steps == <<External("conda run")>>

\* footing.utils.run and conda_cmd: a nonzero exit status is raised as
\* subprocess.CalledProcessError
utils_run(code) == IF code = 0 THEN "" ELSE "CalledProcessError"

\* util.conda_run(cmd, check=False) as Job.run calls it: subprocess.run
\* returns the CompletedProcess whatever the exit status
conda_run_nocheck(code) == ""

\* the call starts
Exec_begin ==
    /\ xres = "idle"
    /\ xres' = "running"
    /\ UNCHANGED <<xop, xlog>>
    /\ ExecFrame

\* the with blocks of Kit.call and Op.call: leaving one on an exception
\* exits the kit's context, and nothing after the block runs
Unwind(steps, i) ==
    IF \E j \in 1..i : steps[j].name = "enter kit"
    THEN IF \E j \in (i + 1)..Len(steps) : steps[j].name = "exit kit"
         THEN <<[name |-> "exit kit", code |-> 0]>> ELSE <<>>
    ELSE <<>>

\* Kit.call or Op.call: the next step; an external command that exits
\* nonzero raises out of the call
Task_call_step ==
    /\ xres = "running"
    /\ xop.kind \in {"kit", "op"}
    /\ LET i == Len(xlog) + 1
           st == xop.steps[i]
       IN  \E code \in (IF st.external THEN ExitCodes ELSE {0}) :
             LET exc == IF st.external THEN utils_run(code) ELSE "" IN
             /\ xlog' = Append(xlog, [name |-> st.name, code |-> code])
                          \o (IF exc # "" THEN Unwind(xop.steps, i) ELSE <<>>)
             /\ xres' = IF exc # "" THEN "raised"
                        ELSE IF i = Len(xop.steps) THEN "returned" ELSE "running"
    /\ UNCHANGED xop
    /\ ExecFrame

\* Job.run: conda_run with check=False, the result is returned
Job_run ==
    /\ xres = "running"
    /\ xop.kind = "job"
    /\ \E code \in ExitCodes :
         LET exc == conda_run_nocheck(code) IN
         /\ xlog' = Append(xlog, [name |-> xop.steps[1].name, code |-> code])
         /\ xres' = IF exc # "" THEN "raised" ELSE "returned"
    /\ UNCHANGED xop
    /\ ExecFrame

\* a kit, an op or a job about to be called
InitExec ==
    /\ FactoryIdle
    /\ RunnerIdle
    /\ CtxIdle
    /\ oref = NotComputed
    /\ ostore = {}
    /\ olast = NoQuery
    /\ decl = <<>>
    /\ tloop = LoopStart
    /\ tcmd = <<>>
    /\ tpos = "declared"
    /\ LaterIdle
    /\ xop \in {[kind |-> "kit", steps |-> Kit_call_steps(e, n)] :
                    e \in BOOLEAN, n \in 0..MaxRegistries}
               \cup {[kind |-> "op", steps |-> Op_call_steps(k)] : k \in BOOLEAN}
               \cup {[kind |-> "job", steps |-> Job_run_steps]}
    /\ xlog = <<>>
    /\ xres = "idle"

NextExec ==
    \/ Exec_begin
    \/ Task_call_step
    \/ Job_run

SpecExec == InitExec /\ [][NextExec]_vars

(***************************************************************************)
(* Obj: the cached ref and the cache file (obj.py), Pod.build (k8s.py)     *)
(***************************************************************************)
\* obj.hash: xxh3_128_hexdigest, taken to be free of collisions
hash(val) == "xxh3(" \o val \o ")"

\* obj.hash_file: the hash of the content, of "Not Found" for a missing file
hash_file(p, f) == IF f[p].exists THEN hash(f[p].content) ELSE hash("Not Found")

\* the files the serialized object names, sorted
Obj_files == <<"in">>

\* orjson.dumps(self)
Obj_serialized == "{\"file_path\":\"in\"}"

RECURSIVE Join(_)
Join(ss) == IF ss = <<>> THEN "" ELSE Head(ss) \o Join(Tail(ss))

\* the body of Obj._ref: the hash of the object and of its files as on disk
Obj_ref_body(f) ==
    LET obj_hash == hash(Obj_serialized)
        files_hash == Join([i \in DOMAIN Obj_files |-> hash_file(Obj_files[i], f)])
    IN  IF Obj_files # <<>> THEN hash(obj_hash \o files_hash) ELSE obj_hash

\* Obj._ref, a functools.cached_property: computed on the first access and
\* kept on the instance afterwards
Obj_ref(cached, f) ==
    IF cached.set THEN cached ELSE [set |-> TRUE, hash |-> Obj_ref_body(f)]

\* Obj.cache_obj: CachedBuild(hash=self.ref.hash)
Obj_cache_obj(ref) == [kind |-> "CachedBuild", hash |-> ref.hash]

\* Obj.read_cache: the object in the file named by the key, None without it
Obj_read_cache(ref, store) ==
    IF \E r \in store : r.key = ref.hash
    THEN [kind |-> "CachedBuild",
          hash |-> (CHOOSE r \in store : r.key = ref.hash).hash]
    ELSE [kind |-> "None", hash |-> ""]

\* Obj.write_cache: the file named by the key holds cache_obj
Obj_write_cache(ref, store) ==
    {r \in store : r.key # ref.hash} \cup {[key |-> ref.hash, hash |-> ref.hash]}

\* Obj.delete_cache: unlink the file named by the key
Obj_delete_cache(ref, store) == {r \in store : r.key # ref.hash}

\* Obj.is_cached: old_cache_obj == new_cache_obj
Obj_is_cached(ref, store) == Obj_read_cache(ref, store) = Obj_cache_obj(ref)

\* what a query compared: the hash it used and the hash of the disk then
Query(op, result, ref) ==
    [op |-> op, result |-> result, used |-> ref.hash, fresh |-> Obj_ref_body(fs),
     had |-> \E r \in ostore : r.key = ref.hash]

\* a caller reads obj.is_cached
IsCached ==
    /\ LET ref == Obj_ref(oref, fs)
       IN  /\ oref' = ref
           /\ olast' = Query("is_cached",
                             IF Obj_is_cached(ref, ostore) THEN "hit" ELSE "miss", ref)
    /\ UNCHANGED ostore
    /\ ObjFrame

\* Pod.build(cache): return on a hit, else kubectl apply and wait, which
\* may raise, then write_cache
Pod_build ==
    /\ \E cache_ \in BOOLEAN, ok \in BOOLEAN :
        LET ref == Obj_ref(oref, fs)
        IN  /\ oref' = ref
            /\ IF Obj_is_cached(ref, ostore) /\ cache_
               THEN olast' = Query("build", "hit", ref) /\ UNCHANGED ostore
               ELSE IF ~ok
               THEN olast' = Query("build", "CalledProcessError", ref)
                    /\ UNCHANGED ostore
               ELSE /\ olast' = Query("build", "built", ref)
                    /\ ostore' = Obj_write_cache(ref, ostore)
    /\ ObjFrame

\* what kubectl delete can do: remove the pod, report it as not found (which
\* Pod.delete passes over), or fail otherwise
KubectlDelete == {"ok", "NotFound", "fail"}

\* Pod.delete with the record deleted only once the pod is removed
Pod_delete_remote_first ==
    /\ \E k \in KubectlDelete :
        LET ref == Obj_ref(oref, fs)
        IN  /\ oref' = ref
            /\ ostore' = IF k = "fail" THEN ostore ELSE Obj_delete_cache(ref, ostore)
            /\ olast' = Query("delete",
                              IF k = "fail" THEN "CalledProcessError" ELSE "deleted", ref)
    /\ ObjFrame

\* Pod.delete: delete_cache, then kubectl delete, whose failure is raised
\* unless it says the pod was not found
Pod_delete ==
    /\ \E k \in KubectlDelete :
        LET ref == Obj_ref(oref, fs)
        IN  /\ oref' = ref
            /\ ostore' = Obj_delete_cache(ref, ostore)
            /\ olast' = Query("delete",
                              IF k = "fail" THEN "CalledProcessError" ELSE "deleted", ref)
    /\ ObjFrame

\* Obj.render: clear_cached_properties
Obj_render ==
    /\ oref' = NotComputed
    /\ olast' = [NoQuery EXCEPT !.op = "render"]
    /\ UNCHANGED ostore
    /\ ObjFrame

\* the referenced file on disk or not, nothing built yet, the global
\* context with caching enabled or disabled
InitObj ==
    /\ FactoryIdle
    /\ ObjIdle
    /\ gctx \in {Ctx(c, FALSE, [k \in EnvKeys |-> ""]) : c \in BOOLEAN}
    /\ gctx0 = gctx
    /\ cstack = [k \in Kits |-> <<>>]
    /\ estack = <<>>
    /\ tctx = <<>>
    /\ tpc = "idle"
    /\ texc = FALSE
    /\ trace = <<>>
    /\ root = "T"
    /\ fs \in {f \in [Paths -> {Missing, OnDisk("a", 0)}] :
                 \A p \in Paths : p # "in" => f[p] = Missing}
    /\ cacheDir = FALSE
    /\ cache = [n \in Names |-> Absent]
    /\ last = NoRun
    /\ quiet = 0
    /\ built = AllMissing
    /\ order = <<>>
    /\ callState = "idle"

NextObj ==
    \/ IsCached
    \/ Pod_build
    \/ Pod_delete
    \/ Obj_render
    \/ \E c \in Contents \cup {"Not Found"} : Write("in", c)
    \/ Delete("in")

SpecObj == InitObj /\ [][NextObj]_vars

(***************************************************************************)
(* Claims about Runner.run_task (Spec)                                     *)
(***************************************************************************)
\* the last run_task executed the task's command (which may have failed)
Executed == last.op = "run_task" /\ last.result \in {"ran", "CalledProcessError"}

\* C1: when a task is run twice in succession and nothing changes on disk
\* between the two runs, the second run is a cache hit: the command is
\* executed by the first run only, whatever the cache store was before.
C1_SecondRunIsHit ==
    (last.op = "run_task" /\ quiet = 2) => last.result = "hit"

\* C2: the cache store changes only in a run_task whose task returned
\* without raising; a run that raises leaves the cache directory and every
\* cache file as they were.
C2_FailedBuildNotCached ==
    [][(cache' # cache \/ cacheDir' # cacheDir)
        => (last'.op = "run_task" /\ last'.result = "ran")]_vars

\* C2 witness: a run raised from the command while an earlier record of the
\* task was in the cache, and the record is still there.
C2_Witness ==
    /\ last.op = "run_task" /\ last.result = "CalledProcessError"
    /\ cache[last.task].kind = "ref"

C9_MissingEnvIsRebuilt ==
    (last.op = "run_task" /\ TaskOf[last.task].type = "kit" /\ last.missing)
        => Executed

\* the task declares no input and no output
NoIO(n) == TaskOf[n].input = <<>> /\ TaskOf[n].output = <<>>

\* C11: every run_task of a task that declares no input and no output
\* executes the command, and no cache record exists for such a task.
C11_NoIONeverCached ==
    \A n \in Names :
        NoIO(n) =>
            /\ cache[n].kind = "absent"
            /\ (last.op = "run_task" /\ last.task = n) => Executed

\* C13: a run_task whose cache check is a hit changes nothing: the files
\* the command would write, the cache directory, every cache file and the
\* global context with its stack of entered contexts are as before.
C13_HitHasNoEffects ==
    [][(last'.op = "run_task" /\ last'.result = "hit" /\ quiet' > 0)
        => /\ fs' = fs
           /\ cache' = cache /\ cacheDir' = cacheDir
           /\ gctx' = gctx /\ cstack' = cstack]_vars

\* C13 witness: a run of the cached task T was a hit.
C13_Witness ==
    /\ last.op = "run_task" /\ last.task = "T" /\ last.result = "hit"
    /\ quiet > 0 /\ cache["T"].kind = "ref"

\* C14: whatever the task's cache file holds, the read of the record does
\* not raise out of run_task: a record that is missing, empty or not
\* readable as text counts as absent and the task is called.
C14_CacheReadNeverRaises ==
    last.op = "run_task" => last.result # "UnicodeDecodeError"

\* C16: a run_task of an environment task that directly follows a
\* successful run of it, the environment's path still on disk and nothing
\* changed in between, is a hit: Kit.call is not invoked (no conda create,
\* no install, no touch of the environment) and the cache is as before.
C16_SecondEnvBuildIsNoOp ==
    [][(/\ TaskOf[root].type = "kit"
        /\ quiet >= 1 /\ fs["env"].exists
        /\ (quiet' >= 1 \/ last' # last))
        => /\ last'.result = "hit"
           /\ fs' = fs
           /\ cache' = cache /\ cacheDir' = cacheDir]_vars

\* C19: computing a task's ref never raises because an input or output
\* file is missing, so no run_task ends in FileNotFoundError.
C19_RefNeverRaises ==
    last.op = "run_task" => last.result # "FileNotFoundError"

(***************************************************************************)
(* Claims about Runner.call (SpecGraph)                                    *)
(***************************************************************************)
\* C4: in a graph run every upstream of a task has been through run_task
\* (cache check, execution, cache write) before the task's own run_task.
C4_TopologicalOrder ==
    \A i \in DOMAIN order :
        \A u \in Range(TaskOf[order[i]].upstream) :
            \E j \in 1..(i - 1) : order[j] = u

\* C4 witness: a graph run went through all five tasks of the diamond.
C4_Witness == callState = "done" /\ Len(order) = 5 /\ order[5] = "A"

NoDup(s) == \A i, j \in DOMAIN s : s[i] = s[j] => i = j

\* C5: a task reachable from the root along two paths is once in the built
\* graph, and a graph run passes it to run_task at most once.
C5_DiamondOnce ==
    /\ NoDup(GraphOf[root].tasks)
    /\ NoDup(order)

\* C5 witness: D, which the root reaches through B and through C, was run
\* in a graph run that completed.
C5_Witness ==
    /\ callState = "done" /\ "D" \in Range(order)
    /\ Cardinality({e \in Runner_edges(root) : e.upstream = "D"}) = 2
    /\ Len(SelectSeq(Task_graph_list(root), LAMBDA n : n = "D")) > 1

(***************************************************************************)
(* Claims about Op.factory (SpecFactory)                                   *)
(***************************************************************************)
\* the ops reachable from the ops of S along "^name" inputs, in k steps
RECURSIVE ReachFrom(_, _, _)
ReachFrom(cfg, S, k) ==
    IF k = 0 THEN S
    ELSE ReachFrom(cfg, S \cup UNION {cfg[n] : n \in S}, k - 1)

\* the configuration has a dependency cycle reachable from op n
Cyclic(cfg, n) ==
    \E m \in ReachFrom(cfg, {n}, Cardinality(OpNames)) :
        m \in ReachFrom(cfg, cfg[m], Cardinality(OpNames))

\* C6: building the graph of a cyclic configuration never nests deeper than
\* the number of ops (the cycle is detected) and ends in a configuration
\* error.
C6_CycleRejected ==
    /\ Len(fstack) <= Cardinality(OpNames)
    /\ (fresult \notin {"idle", "building"} /\ Cyclic(fcfg, "X"))
          => fresult = "ConfigError"

(***************************************************************************)
(* Claims about contexts (SpecCtx)                                         *)
(***************************************************************************)
Reverse(l) == [i \in DOMAIN l |-> l[Len(l) + 1 - i]]

Events(ev, l) == [i \in DOMAIN l |-> [ev |-> ev, ctx |-> l[i]]]

Finished == tpc \in {"returned", "raised"}

\* C7: when a task declaring contexts [C1, .., Cn] returns or raises, it has
\* entered C1 .. Cn in that order and then exited Cn .. C1, each once, no
\* context it entered is still active, and the global context is the one
\* the call started with.
C7_EnterExitPaired ==
    Finished =>
        /\ trace = Events("enter", tctx) \o Events("exit", Reverse(tctx))
        /\ \A k \in Kits : cstack[k] = <<>>
        /\ gctx = gctx0

\* a task declaring two different contexts whose command raised
C7_Witness ==
    /\ tpc = "raised"
    /\ tctx = <<"K1", "K2">>
    /\ Len(trace) = 4

C10_HitUsesCurrentHash ==
    (olast.op \in {"is_cached", "build"} /\ olast.result = "hit")
        => olast.used = olast.fresh

\* C12: while the global context's cache flag is false, neither is_cached
\* nor build reports a hit, whatever the persisted record.
C12_NoCacheFlagForcesMiss ==
    (~gctx.cache /\ olast.op \in {"is_cached", "build"}) => olast.result # "hit"

\* C15: once Pod.delete has deleted the object's cache record, whether or
\* not the removal of the pod succeeded, the next cache check of the object
\* is a miss and the next build runs the build commands, although the
\* referenced file is as it was when the record was written.
C15_DeleteForcesRebuild ==
    [][(olast.op = "delete" /\ olast'.op \in {"is_cached", "build"})
        => olast'.result \in {"miss", "built", "CalledProcessError"}]_vars

\* C15 witness: Pod.delete found the record of the unchanged file, deleted
\* it, and the removal of the pod failed.
C15_Witness ==
    /\ olast.op = "delete" /\ olast.result = "CalledProcessError"
    /\ olast.had /\ olast.used = olast.fresh
    /\ ~Obj_is_cached(oref, ostore)

\* C20: whatever an existing referenced file holds, the object's hash
\* differs from its hash with that file missing.
C20_MissingIsDistinct ==
    fs["in"].exists =>
        Obj_ref_body(fs) # Obj_ref_body([fs EXCEPT !["in"] = Missing])

(***************************************************************************)
(* Claims about a toolkit's command list (SpecCmd)                         *)
(***************************************************************************)
\* the names a command list runs, left to right, the packages of an
\* install in the order of its list
RECURSIVE RunOrder(_)
RunOrder(cmd) ==
    IF cmd = <<>> THEN <<>>
    ELSE (IF Head(cmd).kind = "install" THEN Head(cmd).pkgs ELSE <<Head(cmd).name>>)
         \o RunOrder(Tail(cmd))

\* C17: the command list of a constructed toolkit runs the creation of the
\* environment first and then every declared entry at the position it was
\* declared at.
C17_DeclaredOrder ==
    tpos = "built" =>
        RunOrder(tcmd) = <<"create">> \o [i \in DOMAIN decl |-> decl[i].name]

(***************************************************************************)
(* Claims about external commands (SpecExec)                               *)
(***************************************************************************)
\* C18: once an external command of a call exited nonzero, no further
\* command of the call is run, and the call raises: it does not return.
C18_FailurePropagates ==
    /\ \A i \in DOMAIN xlog :
          xlog[i].code # 0 =>
              \A j \in (i + 1)..Len(xlog) : xlog[j].name = "exit kit"
    /\ xres = "returned" => \A i \in DOMAIN xlog : xlog[i].code = 0

(***************************************************************************)
(* Artifact.hash of a glob (SpecGlob)                                      *)
(***************************************************************************)
\* the place of a file's name in the order of strings
Rank == [f1 |-> 1, f2 |-> 2, f3 |-> 3]

\* the orders in which a set of files can be enumerated
Enumerations(S) ==
    {e \in [1..Cardinality(S) -> S] : \A i, j \in DOMAIN e : e[i] = e[j] => i = j}

\* f"{file}:{self._mtime(file)}"
Glob_entry(file, mt) ==
    file \o ":" \o (IF mt[file] = None THEN "None" ELSE ToString(mt[file]))

\* the enumeration as it comes: no sorted()
unsorted(files, mt) == files

\* sorted(): the entries of distinct files are ordered as their names are
RECURSIVE sorted_insert(_, _, _)
sorted_insert(file, files, mt) ==
    IF files = <<>> THEN <<file>>
    ELSE IF Rank[file] <= Rank[Head(files)] THEN <<file>> \o files
    ELSE <<Head(files)>> \o sorted_insert(file, Tail(files), mt)

RECURSIVE sorted(_, _)
sorted(files, mt) ==
    IF files = <<>> THEN <<>>
    ELSE sorted_insert(Head(files), sorted(Tail(files), mt), mt)

\* "-".join
RECURSIVE str_join(_, _)
str_join(sep, ss) ==
    IF ss = <<>> THEN ""
    ELSE IF Len(ss) = 1 THEN Head(ss)
    ELSE Head(ss) \o sep \o str_join(sep, Tail(ss))

\* Artifact.hash of a glob whose matches glob.glob yields in the order enum
Artifact_hash_glob(enum, mt) ==
    hash128(<<str_join("-", Map(sorted(enum, mt), LAMBDA f : Glob_entry(f, mt)))>>)

\* Artifact.hash is called on the glob
Glob_hash ==
    /\ ghash' = [set |-> TRUE, val |-> Artifact_hash_glob(genum, gmt),
                 enum |-> genum, mt |-> gmt]
    /\ UNCHANGED <<gmatch, gmt, genum, htask>>
    /\ HashFrame

\* the file system yields the same matches in another order
Glob_enumerate(e) ==
    /\ e # genum
    /\ genum' = e
    /\ UNCHANGED <<gmatch, gmt, ghash, htask>>
    /\ HashFrame

\* a file that matches the pattern is created with a modification time, or
\* is listed and gone before its modification time is read
Glob_match(file, m) ==
    /\ file \notin gmatch
    /\ gmatch' = gmatch \cup {file}
    /\ gmt' = [gmt EXCEPT ![file] = m]
    /\ genum' \in Enumerations(gmatch')
    /\ UNCHANGED <<ghash, htask>>
    /\ HashFrame

\* a file that matched is deleted
Glob_unmatch(file) ==
    /\ file \in gmatch
    /\ gmatch' = gmatch \ {file}
    /\ gmt' = [gmt EXCEPT ![file] = None]
    /\ genum' \in Enumerations(gmatch')
    /\ UNCHANGED <<ghash, htask>>
    /\ HashFrame

InitGlob ==
    /\ FactoryIdle
    /\ RunnerIdle
    /\ CtxIdle
    /\ ObjIdle

NextGlob ==
    \/ Glob_hash
    \/ \E e \in Enumerations(gmatch) : Glob_enumerate(e)
    \/ \E file \in GlobFiles, m \in {None} \cup 1..MaxMtime : Glob_match(file, m)
    \/ \E file \in GlobFiles : Glob_unmatch(file)

SpecGlob == InitGlob /\ [][NextGlob]_vars

\* C21: the hash taken of a glob is the hash every enumeration of the same
\* files with the same modification times gives, and the hash of a glob
\* that matches nothing is the hash of the empty string.
C21_GlobOrderIndependent ==
    ghash.set =>
        /\ \A e \in Enumerations(Range(ghash.enum)) :
              Artifact_hash_glob(e, ghash.mt) = ghash.val
        /\ ghash.enum = <<>> => ghash.val = hash128(<<"">>)

\* a hash was taken of three matches that the file system did not yield in
\* the order of their names, one of them without a modification time
C21_Witness ==
    /\ ghash.set
    /\ Len(ghash.enum) = 3
    /\ Rank[ghash.enum[1]] > Rank[ghash.enum[2]]
    /\ \E f \in GlobFiles : ghash.mt[f] = None

(***************************************************************************)
(* Task.hash and Task.ref of tasks that list the same files (SpecTaskHash) *)
(***************************************************************************)
\* Task.hash and Task.ref are called on a task whose files are on disk
Task_hash_call(n) ==
    /\ ~Task_ref_raises(n, fs)
    /\ htask' = [htask EXCEPT ![n] = [set |-> TRUE, hash |-> Task_hash(n, fs),
                                      ref |-> Task_ref(n, fs), at |-> fs]]
    /\ UNCHANGED <<gmatch, gmt, genum, ghash>>
    /\ HashFrame

InitTaskHash == InitFor({"T"})

NextTaskHash ==
    \/ \E n \in {"P", "Q"} : Task_hash_call(n)
    \/ \E p \in {"in", "out"}, c \in Contents : Write(p, c)

SpecTaskHash == InitTaskHash /\ [][NextTaskHash]_vars

\* what the hashes of the artifacts add to a hash: hash128's arguments
\* after the first, which is the task itself or the task's hash
ArtifactPart(h) == SubSeq(h, 3, Len(h))

\* C22: two tasks that list the same input files in different orders, hashed
\* on the same disk, get the same contribution of the files to their hash.
C22_ListingOrderIrrelevant ==
    (htask["P"].set /\ htask["Q"].set /\ htask["P"].at = htask["Q"].at)
        => ArtifactPart(htask["P"].hash) = ArtifactPart(htask["Q"].hash)

(***************************************************************************)
(* Claims about the environment of a command (SpecCtx)                     *)
(***************************************************************************)
\* the PATH a command launched under the global context g is given: the
\* context's, or the process's own where the context sets none
PathInEffect(g) == IF g.env["PATH"] = "" THEN "$PATH" ELSE g.env["PATH"]

\* the PATH the contract gives after the contexts es were entered in order,
\* each prepending its bin directory to the PATH it found
RECURSIVE ContractPath(_, _)
ContractPath(g, es) ==
    IF es = <<>> THEN PathInEffect(g)
    ELSE es[Len(es)] \o "/bin:" \o ContractPath(g, SubSeq(es, 1, Len(es) - 1))

\* C23: while contexts are entered, the PATH in effect is the bin directory
\* of the innermost followed by the PATH that was in effect before it was
\* entered, and the context names the innermost environment's root and name.
C23_ActivationContract ==
    estack # <<>> =>
        /\ PathInEffect(gctx) = ContractPath(gctx0, estack)
        /\ gctx.env["CONDA_PREFIX"] = "/envs/" \o estack[Len(estack)]
        /\ gctx.env["CONDA_DEFAULT_ENV"] = estack[Len(estack)]

(***************************************************************************)
(* footing.ctx.set with the objects it copies (SpecSet)                    *)
(***************************************************************************)
\* the keyword arguments ctx.set is called with: the keywords given and the
\* value of each
Kw(ks, c, d, a, e) ==
    [keys |-> ks, cache |-> c, debug |-> d, entry_add |-> a, env |-> e]

Kwargs ==
    { Kw({"cache"}, FALSE, FALSE, "", EmptyDict),
      Kw({"debug", "entry_add"}, TRUE, TRUE, "x", EmptyDict),
      Kw({"env"}, TRUE, FALSE, "", [EmptyDict EXCEPT !["A"] = "1"]),
      Kw({"env"}, TRUE, FALSE, "", [EmptyDict EXCEPT !["A"] = "2", !["B"] = "1"]),
      Kw({"cache", "env"}, TRUE, FALSE, "", [EmptyDict EXCEPT !["B"] = "2"]) }

\* d | val of two dicts: val's keys win
dict_or(d, val) == [k \in DOMAIN d |-> IF val[k] # "-" THEN val[k] ELSE d[k]]

\* get: _ctx, a new Ctx() with a new empty dict where _ctx is None
ctx_get(h) ==
    IF h.ctx # 0 THEN h
    ELSE [ctx |-> Len(h.objs) + 1,
          objs |-> Append(h.objs, [cache |-> TRUE, debug |-> FALSE, entry_add |-> "",
                                   env |-> Len(h.dicts) + 1]),
          dicts |-> Append(h.dicts, EmptyDict)]

\* copy.copy of the object o: a new object whose fields refer to what o's do
copy_copy(h, o) == [h EXCEPT !.objs = Append(@, h.objs[o])]

\* Ctx.update merging a dict into the dict the object has: dict.update
Ctx_update_in_place(h, o, kw) ==
    LET c == h.objs[o]
        new == [cache |-> IF "cache" \in kw.keys THEN kw.cache ELSE c.cache,
                debug |-> IF "debug" \in kw.keys THEN kw.debug ELSE c.debug,
                entry_add |-> IF "entry_add" \in kw.keys THEN kw.entry_add
                              ELSE c.entry_add,
                env |-> c.env]
    IN  [ctx |-> h.ctx,
         objs |-> [h.objs EXCEPT ![o] = new],
         dicts |-> IF "env" \in kw.keys
                   THEN [h.dicts EXCEPT ![c.env] = dict_or(@, kw.env)]
                   ELSE h.dicts]

\* Ctx.update of the object o: setattr of every keyword, a dict value
\* merged with the attribute's into a new dict
Ctx_update_obj(h, o, kw) ==
    LET c == h.objs[o]
        new == [cache |-> IF "cache" \in kw.keys THEN kw.cache ELSE c.cache,
                debug |-> IF "debug" \in kw.keys THEN kw.debug ELSE c.debug,
                entry_add |-> IF "entry_add" \in kw.keys THEN kw.entry_add
                              ELSE c.entry_add,
                env |-> IF "env" \in kw.keys THEN Len(h.dicts) + 1 ELSE c.env]
    IN  [ctx |-> h.ctx,
         objs |-> [h.objs EXCEPT ![o] = new],
         dicts |-> IF "env" \in kw.keys
                   THEN Append(h.dicts, dict_or(h.dicts[c.env], kw.env))
                   ELSE h.dicts]

\* the field values of the context get() returns
GetValue(h) ==
    LET g == ctx_get(h)
        c == g.objs[g.ctx]
    IN  CtxValue(c.cache, c.debug, c.entry_add, g.dicts[c.env])

\* set up to its yield: ctx = get(), prev = copy.copy(ctx), ctx.update
ctx_set_try(h, kw) ==
    LET h1 == ctx_get(h)
        h2 == copy_copy(h1, h1.ctx)
    IN  [h |-> Ctx_update_obj(h2, h1.ctx, kw), prev |-> Len(h2.objs)]

\* set, its finally clause: _ctx = prev
ctx_set_finally(h, prev) == [h EXCEPT !.ctx = prev]

\* `with footing.ctx.set(**kw):` is entered
Set_enter(kw) ==
    /\ scount < MaxSets
    /\ scount' = scount + 1
    /\ LET r == ctx_set_try(sh, kw)
       IN  /\ sh' = r.h
           /\ sscopes' = Append(sscopes, [prev |-> r.prev, before |-> GetValue(sh)])
    /\ UNCHANGED slast
    /\ SetFrame

\* the innermost open scope is left, by the end of its body or by an
\* exception out of it
Set_exit(exc) ==
    /\ sscopes # <<>>
    /\ LET s == sscopes[Len(sscopes)]
       IN  /\ sh' = ctx_set_finally(sh, s.prev)
           /\ slast' = [op |-> "exit", exc |-> exc, depth |-> Len(sscopes),
                        before |-> s.before, inside |-> GetValue(sh),
                        after |-> GetValue(sh')]
    /\ sscopes' = SubSeq(sscopes, 1, Len(sscopes) - 1)
    /\ UNCHANGED scount
    /\ SetFrame

\* _ctx is None, or a Ctx that earlier code has set up
InitSet ==
    /\ FactoryIdle
    /\ RunnerIdle
    /\ CtxIdle
    /\ oref = NotComputed
    /\ ostore = {}
    /\ olast = NoQuery
    /\ decl = <<>>
    /\ tloop = LoopStart
    /\ tcmd = <<>>
    /\ tpos = "declared"
    /\ ExecIdle
    /\ HashIdle
    /\ RaceIdle
    /\ GraphIdle
    /\ EnterIdle
    /\ PodIdle
    /\ RegIdle
    /\ sh \in {[ctx |-> 0, objs |-> <<>>, dicts |-> <<>>]}
              \cup {[ctx |-> 1,
                     objs |-> <<[cache |-> c, debug |-> FALSE, entry_add |-> "",
                                 env |-> 1]>>,
                     dicts |-> <<[EmptyDict EXCEPT !["A"] = a]>>] :
                        c \in BOOLEAN, a \in {"-", "0"}}
    /\ sscopes = <<>>
    /\ slast = NoExit
    /\ scount = 0

NextSet ==
    \/ \E kw \in Kwargs : Set_enter(kw)
    \/ \E exc \in BOOLEAN : Set_exit(exc)

SpecSet == InitSet /\ [][NextSet]_vars

\* C24: when a ctx.set scope is left, by the end of its body or by an
\* exception, get() returns the field values it returned just before that
\* scope was entered.
C24_SetIsReversible ==
    slast.op = "exit" => slast.after = slast.before

\* a scope that changed the env and another field, entered inside another
\* scope, was left by an exception
C24_Witness ==
    /\ slast.op = "exit"
    /\ slast.exc
    /\ slast.depth = 2
    /\ slast.inside.env # slast.before.env
    /\ slast.inside.cache # slast.before.cache

(***************************************************************************)
(* Runner.run_task while another process writes (SpecRace)                 *)
(***************************************************************************)
\* run_task: the check `self.cached_ref(task) == task.ref()`
Race_check ==
    /\ rpc \in {"idle", "done", "hit", "raised"}
    /\ rpc' = IF Runner_cached_ref_raises(root, cacheDir, cache)
                 \/ Task_ref_raises(root, fs)
              THEN "raised"
              ELSE IF IsHit(Runner_cached_ref(root, cacheDir, cache), Task_ref(root, fs))
              THEN "hit" ELSE "calling"
    /\ UNCHANGED <<fs, runnerVars, rbuilt>>
    /\ RaceFrame

\* run_task: task()
Race_call(o) ==
    /\ rpc = "calling"
    /\ LET r == Task_call(root, fs, o)
       IN  /\ fs' = r.fs
           /\ rbuilt' = IF r.exc # "" THEN rbuilt ELSE r.fs
           /\ rpc' = IF r.exc # "" THEN "raised" ELSE "called"
    /\ UNCHANGED runnerVars
    /\ RaceFrame

\* run_task: self.cache_ref(task), which takes task.ref() of the disk then
Race_cache_ref ==
    /\ rpc = "called"
    /\ LET w == Runner_cache_ref(root, fs, cacheDir, cache)
       IN  /\ cacheDir' = w.cacheDir
           /\ cache' = w.cache
    /\ rpc' = "done"
    /\ UNCHANGED <<fs, root, last, quiet, built, order, callState, rbuilt>>
    /\ RaceFrame

InitRace == InitFor({"T"})

NextRace ==
    \/ Race_check
    \/ \E o \in Outcomes(root, fs) : Race_call(o)
    \/ Race_cache_ref
    \/ \E c \in Contents : Write("in", c)

SpecRace == InitRace /\ [][NextRace]_vars

\* C25: the record run_task wrote holds the ref of the files as the command
\* left them, and while a check of that record would be a hit the input is
\* the one the command read.
C25_RecordIsOfBuiltState ==
    (rpc = "done" /\ cache[root].kind = "ref") =>
        /\ cache[root].val = Task_ref(root, rbuilt)
        /\ (~Task_ref_raises(root, fs)
            /\ IsHit(Runner_cached_ref(root, cacheDir, cache), Task_ref(root, fs)))
              => \A a \in Range(TaskOf[root].input) : fs[a.path] = rbuilt[a.path]

(***************************************************************************)
(* Claims about the runs of a graph, one after another (SpecGraph)         *)
(***************************************************************************)
\* the task n has an output artifact of the task u among its inputs
ConsumesOutputOf(n, u) ==
    \E a \in Range(TaskOf[u].output) : a \in Range(TaskOf[n].input)

\* in a run that follows a completed run no task was up to date after a
\* task whose output it consumes was executed and changed that output
StalenessPropagates ==
    prevRun # "none" =>
    \A i, j \in DOMAIN olog :
        (/\ i < j
         /\ ConsumesOutputOf(order[j], order[i])
         /\ olog[i].result = "ran" /\ olog[i].changed)
            => olog[j].result # "hit"

\* a run started right after a completed run executes no task
RepeatedRunIsIdle ==
    prevRun = "same" => \A i \in DOMAIN olog : olog[i].result = "hit"

\* C26: every op declared downstream of another op or of a kit consumes its
\* outputs; in a graph run that follows a completed one a task is never
\* found up to date after such an upstream was executed and changed its
\* output; and a graph run that follows a completed one, the disk untouched
\* in between, executes no task.
C26_StalenessPropagates ==
    /\ \A n \in Runner_nodes(root) : \A u \in Range(TaskOf[n].upstream) :
          \A a \in Range(TaskOf[u].output) : a \in Range(TaskOf[n].input)
    /\ StalenessPropagates
    /\ RepeatedRunIsIdle

\* C27: the run_task that raises in a graph run ends the run with the
\* exception and writes no record, the failing task's included; after it no
\* further task goes through run_task and every record stays as it is until
\* Runner.call is called again.
C27_FailureStopsTheRun ==
    [][/\ (callState = "running" /\ order' # order /\ last'.result \in Exceptions)
            => (callState' = "raised" /\ cache' = cache)
       /\ callState = "raised"
            => /\ cache' = cache
               /\ \/ order' = order /\ olog' = olog /\ last' = last
                  \/ callState' = "running" /\ order' = <<>>]_vars

\* a graph run was ended by the command of a task that had a record from an
\* earlier run, after a task of this run was executed and recorded, and
\* before every task was reached
C27_Witness ==
    /\ callState = "raised"
    /\ last.result = "CalledProcessError"
    /\ cache[last.task].kind = "ref"
    /\ \E i \in 1..(Len(order) - 1) :
          olog[i].result = "ran" /\ cache[order[i]].kind = "ref"
    /\ Runner_nodes(root) \ Range(order) # {}

(***************************************************************************)
(* The '/' expression of a configuration (SpecEnter)                       *)
(***************************************************************************)
\* config.task(cmd): a task that declares no context yet
config_task(cmd) == [cmd |-> cmd, ctx |-> <<>>]

\* config.task.enter: the entered object is appended to the task's contexts
task_enter(self, obj) == [obj EXCEPT !.ctx = Append(@, self)]

\* config.enter.__call__, its loop over reversed(self._objs[:-1])
RECURSIVE enter_loop(_, _)
enter_loop(vals, compiled) ==
    IF vals = <<>> THEN compiled
    ELSE enter_loop(Tail(vals), task_enter(Head(vals), compiled))

\* config.enter.__call__ of the objects objs, the last of them the command
enter_call(objs) ==
    enter_loop(Reverse(SubSeq(objs, 1, Len(objs) - 1)), config_task(objs[Len(objs)]))

\* the expression o1 / .. / on / cmd is compiled into a task
Enter_call ==
    /\ tpc = "config"
    /\ tctx' = enter_call(Append(texpr, "cmd")).ctx
    /\ tpc' = "idle"
    /\ UNCHANGED <<gctx, gctx0, cstack, estack, texc, trace>>
    /\ CtxFrame

\* any expression of at most MaxCtx entered objects, not compiled yet
InitEnter ==
    /\ FactoryIdle
    /\ RunnerIdle
    /\ oref = NotComputed
    /\ ostore = {}
    /\ olast = NoQuery
    /\ decl = <<>>
    /\ tloop = LoopStart
    /\ tcmd = <<>>
    /\ tpos = "declared"
    /\ ExecIdle
    /\ HashIdle
    /\ SetIdle
    /\ RaceIdle
    /\ GraphIdle
    /\ PodIdle
    /\ RegIdle
    /\ gctx \in {Ctx(TRUE, d, [k \in EnvKeys |-> IF k = "LANG" THEN l ELSE ""]) :
                    d \in BOOLEAN, l \in {"", "C"}}
    /\ gctx0 = gctx
    /\ cstack = [k \in Kits |-> <<>>]
    /\ estack = <<>>
    /\ tctx = <<>>
    /\ tpc = "config"
    /\ texc = FALSE
    /\ trace = <<>>
    /\ texpr \in CtxLists(MaxCtx)

NextEnter ==
    \/ Enter_call
    \/ Task_call_begin
    \/ Task_enter_context
    \/ Task_run_command
    \/ Task_exit_context
    \/ Task_call_end

SpecEnter == InitEnter /\ [][NextEnter]_vars

\* C28: the task compiled from o1 / .. / on / cmd, when it returns or
\* raises, has entered o1 .. on in that order and exited them in the
\* reverse order.
C28_FirstIsOutermost ==
    Finished =>
        trace = Events("enter", texpr) \o Events("exit", Reverse(texpr))

(***************************************************************************)
(* FootingPod.exec (SpecPod)                                               *)
(***************************************************************************)
\* Pod.build(cache) with kubectl apply and wait succeeding (ok) or not
Pod_build_result(cache_, ok, cached, f, store) ==
    LET ref == Obj_ref(cached, f)
    IN  IF Obj_is_cached(ref, store) /\ cache_
        THEN [oref |-> ref, ostore |-> store, result |-> "hit"]
        ELSE IF ~ok
        THEN [oref |-> ref, ostore |-> store, result |-> "CalledProcessError"]
        ELSE [oref |-> ref, ostore |-> Obj_write_cache(ref, store), result |-> "built"]

\* what the command of exec can do: the local command or kubectl exec fails
\* otherwise, kubectl exec finds no pod, or both succeed
ExecOutcomes(remote) == IF remote THEN {"ok", "error"} ELSE {"NotFound", "error"}

\* an except clause that rebuilds on any CalledProcessError
exec_except_any(result, retry) == IF retry THEN "rebuild" ELSE "raise"

\* the except clause of exec: rebuild and retry when retry is set and stderr
\* is the pod's not found message, else raise
exec_except(result, retry) ==
    IF retry /\ result = "NotFound" THEN "rebuild" ELSE "raise"

Build(cache_, result) == [ev |-> "build", cache |-> cache_, result |-> result]

Attempt(result) == [ev |-> "exec", cache |-> FALSE, result |-> result]

\* a caller calls pod.exec(exe, args, retry)
Pod_exec_call(exe, retry) ==
    /\ ppc \in {"idle", "returned", "raised"}
    /\ ppc' = "build"
    /\ pexe' = exe
    /\ pretry' = retry
    /\ plog' = <<>>
    /\ UNCHANGED <<premote, objVars>>
    /\ PodFrame

\* exec: self.build()
Pod_exec_build(ok) ==
    /\ ppc = "build"
    /\ LET b == Pod_build_result(TRUE, ok, oref, fs, ostore)
       IN  /\ oref' = b.oref
           /\ ostore' = b.ostore
           /\ plog' = Append(plog, Build(TRUE, b.result))
           /\ premote' = IF b.result = "built" THEN TRUE ELSE premote
           /\ ppc' = IF b.result = "CalledProcessError" THEN "raised" ELSE "try"
    /\ UNCHANGED <<olast, pretry, pexe>>
    /\ PodFrame

\* exec, its try block: list the registry without an executable, else run
\* the local command and kubectl exec; the except clause decides
Pod_exec_try(result) ==
    /\ ppc = "try"
    /\ result \in (IF pexe THEN ExecOutcomes(premote) ELSE {"ok"})
    /\ plog' = Append(plog, Attempt(result))
    /\ ppc' = IF result = "ok" THEN "returned"
              ELSE IF exec_except(result, pretry) = "rebuild" THEN "rebuild"
              ELSE "raised"
    /\ UNCHANGED <<pretry, pexe, premote, objVars>>
    /\ PodFrame

\* exec, its except clause: self.build(cache=False), then
\* self.exec(exe, args, retry=False)
Pod_exec_rebuild(ok) ==
    /\ ppc = "rebuild"
    /\ LET b == Pod_build_result(FALSE, ok, oref, fs, ostore)
       IN  /\ oref' = b.oref
           /\ ostore' = b.ostore
           /\ plog' = Append(plog, Build(FALSE, b.result))
           /\ premote' = IF b.result = "built" THEN TRUE ELSE premote
           /\ ppc' = IF b.result = "CalledProcessError" THEN "raised" ELSE "build"
           /\ pretry' = IF b.result = "CalledProcessError" THEN pretry ELSE FALSE
    /\ UNCHANGED <<olast, pexe>>
    /\ PodFrame

\* the pod is deleted in the cluster by someone else
Pod_vanish ==
    /\ premote
    /\ premote' = FALSE
    /\ UNCHANGED <<ppc, pretry, pexe, plog, objVars>>
    /\ PodFrame

InitPod == InitObj

NextPod ==
    \/ \E exe \in BOOLEAN, retry \in BOOLEAN : Pod_exec_call(exe, retry)
    \/ \E ok \in BOOLEAN : Pod_exec_build(ok)
    \/ \E result \in {"ok", "NotFound", "error"} : Pod_exec_try(result)
    \/ \E ok \in BOOLEAN : Pod_exec_rebuild(ok)
    \/ Pod_vanish

SpecPod == InitPod /\ [][NextPod]_vars

\* the execution attempts of a call, in order
Attempts == SelectSeq(plog, LAMBDA e : e.ev = "exec")

\* the positions of the execution attempts in the log
AttemptAt == {i \in DOMAIN plog : plog[i].ev = "exec"}

\* C29: a call of exec makes at most two execution attempts; it makes a
\* second only after a first that failed with the pod's not found error, and
\* after a build that bypassed the cache; an attempt that fails otherwise, a
\* failed second attempt and a failed build end the call with the exception;
\* the call returns only after an attempt that succeeded, and it never takes
\* more than five steps.
C29_BoundedRetry ==
    /\ Len(Attempts) <= 2
    /\ Len(plog) <= 5
    /\ Len(Attempts) = 2 =>
          /\ Attempts[1].result = "NotFound"
          /\ \E i \in DOMAIN plog :
                /\ plog[i] = Build(FALSE, "built")
                /\ \E j, k \in AttemptAt : j < i /\ i < k
          /\ Cardinality({i \in DOMAIN plog : plog[i].ev = "build" /\ ~plog[i].cache}) = 1
    /\ \A i \in DOMAIN plog :
          \/ plog[i].result \in {"ok", "hit", "built"}
          \/ plog[i].result = "NotFound" /\ (\A j \in AttemptAt : i <= j)
             /\ (i = Len(plog) => ppc \in {"rebuild", "raised"})
          \/ i = Len(plog) /\ ppc = "raised"
    /\ ppc = "returned" => plog[Len(plog)] = Attempt("ok")

\* a call found the record of a pod that was gone, failed with not found,
\* rebuilt the pod, and its second attempt failed with not found again
C29_Witness ==
    /\ ppc = "raised"
    /\ Len(Attempts) = 2
    /\ Attempts[2].result = "NotFound"
    /\ plog[1] = Build(TRUE, "hit")

(***************************************************************************)
(* The local registry (SpecRegistry)                                       *)
(***************************************************************************)
\* the paths outside the registry a build can be at
BuildPaths == {"/b1"}

\* Registry.package_name that leaves the ref out of every name
package_name_no_ref(kind, name, ref) == kind \o ":" \o name

\* Registry.package_name: "kind:name", and ":ref" for a versioned kind
package_name(kind, name, ref) ==
    IF kind \notin unversioned THEN kind \o ":" \o name \o ":" \o ref
    ELSE kind \o ":" \o name

\* self.packages.get(key): the entry stored under the key, None without it
packages_get(index, key) ==
    IF \E e \in index : e.key = key
    THEN CHOOSE e \in index : e.key = key
    ELSE NoPackage

\* Registry.find: the entry under the package name if it has the ref asked
\* for and its path exists, else None
Registry_find(index, files, kind, name, ref) ==
    LET package == packages_get(index, package_name(kind, name, ref))
    IN  IF ~package.found \/ ref # package.ref THEN NoPackage
        ELSE IF package.path \notin files THEN NoPackage
        ELSE package

\* FileSystemRegistry.push of the build at path: the file is copied to the
\* package name in the registry's folder if copy, and the entry under the
\* package name is replaced
Registry_push(index, files, kind, name, ref, path, copy) ==
    LET key == package_name(kind, name, ref)
        entry == [found |-> TRUE, key |-> key, kind |-> kind, name |-> name,
                  ref |-> ref, path |-> IF copy THEN key ELSE path]
    IN  [index |-> {e \in index : e.key # key} \cup {entry},
         files |-> IF copy THEN files \cup {key} ELSE files]

\* registry.push(build, copy); copying a file that does not exist raises
Push(kind, name, ref, path, copy) ==
    /\ copy => path \in rfiles
    /\ LET r == Registry_push(rindex, rfiles, kind, name, ref, path, copy)
       IN  /\ rindex' = r.index
           /\ rfiles' = r.files
    /\ rlatest' = IF kind \in unversioned THEN rlatest
                  ELSE [rlatest EXCEPT ![<<kind, name, ref>>] =
                          IF copy THEN kind \o ":" \o name \o ":" \o ref ELSE path]
    /\ rlastref' = IF kind \in unversioned
                   THEN [rlastref EXCEPT ![<<kind, name>>] = ref] ELSE rlastref
    /\ UNCHANGED rfound
    /\ RegFrame

\* registry.find(kind, name, ref)
Find(kind, name, ref) ==
    /\ LET package == Registry_find(rindex, rfiles, kind, name, ref)
       IN  rfound' = [op |-> "find", kind |-> kind, name |-> name, ref |-> ref,
                      result |-> package,
                      indexed |-> package \in rindex,
                      exists |-> package.path \in rfiles]
    /\ UNCHANGED <<rindex, rfiles, rlatest, rlastref>>
    /\ RegFrame

\* a build is written outside the registry
BuildCreate(path) ==
    /\ path \notin rfiles
    /\ rfiles' = rfiles \cup {path}
    /\ UNCHANGED <<rindex, rfound, rlatest, rlastref>>
    /\ RegFrame

\* a file is deleted, in the registry's folder or outside it
FileDelete(path) ==
    /\ path \in rfiles
    /\ rfiles' = rfiles \ {path}
    /\ UNCHANGED <<rindex, rfound, rlatest, rlastref>>
    /\ RegFrame

InitRegistry ==
    /\ FactoryIdle
    /\ RunnerIdle
    /\ CtxIdle
    /\ ObjIdle

NextRegistry ==
    \/ \E kind \in RegKinds, name \in RegNames, ref \in Refs,
          path \in BuildPaths, copy \in BOOLEAN : Push(kind, name, ref, path, copy)
    \/ \E kind \in RegKinds, name \in RegNames, ref \in Refs : Find(kind, name, ref)
    \/ \E path \in BuildPaths : BuildCreate(path)
    \/ \E path \in rfiles : FileDelete(path)

SpecRegistry == InitRegistry /\ [][NextRegistry]_vars

\* C30: a find that returns a package returns the entry the index then had
\* for the kind and name with exactly the ref asked for, its path existing;
\* of an unversioned kind the index has at most one entry per name, and a
\* find returns only the ref pushed last; of a versioned kind every ref
\* pushed is found as long as the path of its last push exists.
C30_FindIsNeverStale ==
    /\ rfound.result.found =>
          /\ rfound.indexed
          /\ rfound.result.kind = rfound.kind
          /\ rfound.result.name = rfound.name
          /\ rfound.result.ref = rfound.ref
          /\ rfound.exists
    /\ \A kind \in unversioned, name \in RegNames :
          /\ Cardinality({e \in rindex : e.kind = kind /\ e.name = name}) <= 1
          /\ \A ref \in Refs :
                Registry_find(rindex, rfiles, kind, name, ref).found
                    => ref = rlastref[<<kind, name>>]
    /\ \A kind \in RegKinds \ unversioned, name \in RegNames, ref \in Refs :
          rlatest[<<kind, name, ref>>] \in rfiles
              => Registry_find(rindex, rfiles, kind, name, ref).found

\* both refs of a versioned build are in the index and r1 was found; of an
\* unversioned build r2 was pushed last and r1 is not found though the
\* package's file exists
C30_Witness ==
    /\ rfound.result.found
    /\ rfound.kind = "toolkit-lock"
    /\ rfound.ref = "r1"
    /\ Cardinality({e \in rindex : e.kind = "toolkit-lock"}) = 2
    /\ rlastref[<<"toolkit", "n">>] = "r2"
    /\ "toolkit:n" \in rfiles
    /\ ~Registry_find(rindex, rfiles, "toolkit", "n", "r1").found

====
